---------------------------- MODULE Spec2Model ----------------------------
(***************************************************************************)
(* Excel Mock Interviewer (src/app.py): the rule-based grading functions,  *)
(* the confidence classifier, the feedback templater, the hands-on table   *)
(* validator and the Streamlit session that sequences the ten questions.   *)
(*                                                                         *)
(* Representation.                                                         *)
(*  - A Python str is a sequence of one-character strings; the Python      *)
(*    value None is the one-element sequence NoneValue, which no str       *)
(*    equals because its element is not a single character.  The em dash   *)
(*    U+2014 of the "Pivot OK" note is the element "--", and the Kelvin    *)
(*    sign U+212A is the element KelvinSign.                               *)
(*  - A score is an integer number of sixtieths (0.9 = 54, 1/3 = 20,       *)
(*    0.25 = 15, 1.0 = 60); every score the rules produce is a multiple of *)
(*    1/60, so the comparisons with 0.8 (= 48) and 0.4 (= 24) are exact.   *)
(*  - An overall score is an integer number of tenths (33.3 = 333).        *)
(***************************************************************************)
EXTENDS Integers, Sequences, FiniteSets, TLC

-----------------------------------------------------------------------------
(* Bounds of the model. *)

\* How many typed answers per question the candidate chooses among.
NumTyped == 1

\* How many of the sample uploads the candidate chooses among.
NumFiles == 3

\* How many rows the generated tables passed to the validator have at most.
MaxRows == 2

-----------------------------------------------------------------------------
(* Python str primitives used by the rules. *)

NoneValue == <<"None">>

LowerLetters == <<"a","b","c","d","e","f","g","h","i","j","k","l","m",
                  "n","o","p","q","r","s","t","u","v","w","x","y","z">>

UpperLetters == <<"A","B","C","D","E","F","G","H","I","J","K","L","M",
                  "N","O","P","Q","R","S","T","U","V","W","X","Y","Z">>

\* the upper-case letter of each lower-case letter
ToUpper ==
    [c \in {LowerLetters[i] : i \in 1..26} |->
        UpperLetters[CHOOSE i \in 1..26 : LowerLetters[i] = c]]

\* U+212A KELVIN SIGN, one character: an upper-case letter that upper()
\* leaves as it is and whose lower-case letter is the ASCII "k"
KelvinSign == "U+212A"

\* the lower-case letter of each upper-case letter
ToLower ==
    [c \in {UpperLetters[i] : i \in 1..26} \cup {KelvinSign} |->
        IF c = KelvinSign THEN "k"
        ELSE LowerLetters[CHOOSE i \in 1..26 : UpperLetters[i] = c]]

\* str.upper() on one character
UpperChar(c) == IF c \in DOMAIN ToUpper THEN ToUpper[c] ELSE c

\* str.lower() on one character
LowerChar(c) == IF c \in DOMAIN ToLower THEN ToLower[c] ELSE c

upper(s) == [i \in 1..Len(s) |-> UpperChar(s[i])]

lower(s) == [i \in 1..Len(s) |-> LowerChar(s[i])]

\* the characters the regular expression \s matches
IsSpace(c) == c \in {" ", "\t", "\n", "\r", "\f"}

\* (s or ""): None and the empty string both become ""
OrEmpty(s) == IF s = NoneValue THEN <<>> ELSE s

\* needle in hay: needle is empty or occurs at some position of hay
Contains(hay, needle) ==
    \/ needle = <<>>
    \/ \E i \in 1..(Len(hay) - Len(needle) + 1) :
          /\ hay[i] = needle[1]
          /\ SubSeq(hay, i, i + Len(needle) - 1) = needle

\* s.startswith(prefix)
startswith(s, prefix) ==
    /\ Len(prefix) <= Len(s)
    /\ SubSeq(s, 1, Len(prefix)) = prefix

\* s.strip()
RECURSIVE lstrip(_)
lstrip(s) == IF s # <<>> /\ IsSpace(Head(s)) THEN lstrip(Tail(s)) ELSE s

RECURSIVE rstrip(_)
rstrip(s) ==
    IF s # <<>> /\ IsSpace(s[Len(s)]) THEN rstrip(SubSeq(s, 1, Len(s) - 1)) ELSE s

strip(s) == rstrip(lstrip(s))

\* str(n) of a non-negative integer
RECURSIVE IntStr(_)
IntStr(n) ==
    LET d == <<"0","1","2","3","4","5","6","7","8","9">>[(n % 10) + 1]
    IN IF n < 10 THEN <<d>> ELSE Append(IntStr(n \div 10), d)

\* " ".join(list) of strings
RECURSIVE JoinSpace(_)
JoinSpace(list) ==
    IF list = <<>> THEN <<>>
    ELSE IF Len(list) = 1 THEN list[1]
    ELSE list[1] \o <<" ">> \o JoinSpace(Tail(list))

\* n/d as a number of sixtieths
Sixtieths(n, d) == (60 * n) \div d

Min(a, b) == IF a <= b THEN a ELSE b

-----------------------------------------------------------------------------
(* Question bank: id, type, prompt and weight of the ten questions.  The    *)
(* example answers are only displayed and are left out.                     *)

QUESTIONS == <<
  [id |-> <<"q","1">>, type |-> "objective", weight |-> 2,
   prompt |-> "Write an Excel formula that returns the SUM of column B only for rows where column A equals 'Sales'."],
  [id |-> <<"q","2">>, type |-> "objective", weight |-> 2,
   prompt |-> "Give a formula to lookup value in C2 from a table where key is in column A, robust to column re-ordering."],
  [id |-> <<"q","3">>, type |-> "objective", weight |-> 2,
   prompt |-> "Write an Excel formula to count how many cells in range D2:D100 contain text."],
  [id |-> <<"q","4">>, type |-> "objective", weight |-> 2,
   prompt |-> "Write a formula to calculate the average of numbers in column E, ignoring blanks."],
  [id |-> <<"q","5">>, type |-> "objective", weight |-> 1,
   prompt |-> "Write a formula that extracts the year from a date in cell F2."],
  [id |-> <<"q","6">>, type |-> "debug", weight |-> 2,
   prompt |-> "You get #DIV/0! error in Excel. What are two common causes?"],
  [id |-> <<"q","7">>, type |-> "debug", weight |-> 3,
   prompt |-> "Your SUM formula =SUM(A1:A10) is returning 0 even though numbers are visible. List likely causes."],
  [id |-> <<"q","8">>, type |-> "concept", weight |-> 2,
   prompt |-> "Explain difference between Absolute ($A$1) and Relative (A1) references in formulas."],
  [id |-> <<"q","9">>, type |-> "concept", weight |-> 3,
   prompt |-> "Explain difference between VLOOKUP and XLOOKUP in Excel."],
  [id |-> <<"q","1","0">>, type |-> "hands_on", weight |-> 4,
   prompt |-> "Upload a CSV/XLSX with Date and Sales columns. How would you create a chart to show monthly sales trend?"]
>>

\* len(QUESTIONS)
NumQuestions == Len(QUESTIONS)

QIDS == {QUESTIONS[i].id : i \in 1..NumQuestions}

-----------------------------------------------------------------------------
(* Rule-based checks.  Each returns <<score, notes>>. *)

normalize(s) == upper(SelectSeq(OrEmpty(s), LAMBDA c : ~IsSpace(c)))

\* check_sumifs that tests for SUMIF before SUMIFS
check_sumifs_SumifFirst(ans) ==
    LET a == normalize(ans)
    IN IF Contains(a, <<"S","U","M","I","F">>) THEN <<54, << <<"U","s","e","s"," ","S","U","M","I","F"," ","(","a","c","c","e","p","t","a","b","l","e",")">> >> >>
       ELSE IF Contains(a, <<"S","U","M","I","F","S">>) THEN <<60, << <<"U","s","e","s"," ","S","U","M","I","F","S">> >> >>
       ELSE <<0, << <<"S","U","M","I","F","(","S",")"," ","n","o","t"," ","d","e","t","e","c","t","e","d">> >> >>

check_sumifs(ans) ==
    LET a == normalize(ans)
    IN IF Contains(a, <<"S","U","M","I","F","S">>) THEN <<60, << <<"U","s","e","s"," ","S","U","M","I","F","S">> >> >>
       ELSE IF Contains(a, <<"S","U","M","I","F">>) THEN <<54, << <<"U","s","e","s"," ","S","U","M","I","F"," ","(","a","c","c","e","p","t","a","b","l","e",")">> >> >>
       ELSE <<0, << <<"S","U","M","I","F","(","S",")"," ","n","o","t"," ","d","e","t","e","c","t","e","d">> >> >>

check_xlookup(ans) ==
    LET a == normalize(ans)
    IN IF Contains(a, <<"X","L","O","O","K","U","P">>) \/ (Contains(a, <<"I","N","D","E","X">>) /\ Contains(a, <<"M","A","T","C","H">>))
       THEN <<60, << <<"U","s","e","s"," ","X","L","O","O","K","U","P"," ","/"," ","I","N","D","E","X","+","M","A","T","C","H">> >> >>
       ELSE <<0, << <<"X","L","O","O","K","U","P"," ","/"," ","I","N","D","E","X","+","M","A","T","C","H"," ","n","o","t"," ","d","e","t","e","c","t","e","d">> >> >>

check_countif(ans) ==
    LET a == normalize(ans)
    IN IF Contains(a, <<"C","O","U","N","T","I","F">>) \/ Contains(a, <<"C","O","U","N","T","A">>)
       THEN <<60, << <<"U","s","e","s"," ","C","O","U","N","T","I","F","/","C","O","U","N","T","A">> >> >>
       ELSE <<0, << <<"C","O","U","N","T","I","F","/","C","O","U","N","T","A"," ","n","o","t"," ","d","e","t","e","c","t","e","d">> >> >>

check_average(ans) ==
    LET a == normalize(ans)
    IN IF Contains(a, <<"A","V","E","R","A","G","E">>) \/ Contains(a, <<"A","V","E","R","A","G","E","I","F">>)
       THEN <<60, << <<"U","s","e","s"," ","A","V","E","R","A","G","E","/","A","v","e","r","a","g","e","I","f">> >> >>
       ELSE <<0, << <<"A","V","E","R","A","G","E"," ","n","o","t"," ","d","e","t","e","c","t","e","d">> >> >>

check_year(ans) ==
    LET a == normalize(ans)
    IN IF Contains(a, <<"Y","E","A","R","(">>) THEN <<60, << <<"U","s","e","s"," ","Y","E","A","R","(",")">> >> >>
       ELSE <<0, << <<"Y","E","A","R","(",")"," ","n","o","t"," ","d","e","t","e","c","t","e","d">> >> >>

\* check_div0 with the hit counter starting at 1
check_div0_OffByOne(ans) ==
    LET t == lower(OrEmpty(ans))
        h1 == IF Contains(t, <<"z","e","r","o">>) \/ Contains(t, <<"d","i","v","i","d","e">>) THEN 1 ELSE 0
        h2 == IF Contains(t, <<"b","l","a","n","k">>) \/ Contains(t, <<"e","m","p","t","y">>) THEN 1 ELSE 0
        hits == 1 + h1 + h2
    IN <<Min(60, Sixtieths(hits, 2)),
         << <<"m","a","t","c","h","e","d"," ">> \o IntStr(hits) \o <<" ","c","a","u","s","e","s">> >> >>

check_div0(ans) ==
    LET t == lower(OrEmpty(ans))
        h1 == IF Contains(t, <<"z","e","r","o">>) \/ Contains(t, <<"d","i","v","i","d","e">>) THEN 1 ELSE 0
        h2 == IF Contains(t, <<"b","l","a","n","k">>) \/ Contains(t, <<"e","m","p","t","y">>) THEN 1 ELSE 0
        hits == h1 + h2
    IN <<Min(60, Sixtieths(hits, 2)),
         << <<"m","a","t","c","h","e","d"," ">> \o IntStr(hits) \o <<" ","c","a","u","s","e","s">> >> >>

check_sum_zero(ans) ==
    LET t == lower(OrEmpty(ans))
        h1 == IF Contains(t, <<"t","e","x","t">>) THEN 1 ELSE 0
        h2 == IF Contains(t, <<"f","o","r","m","a","t">>) \/ Contains(t, <<"f","o","r","m","a","t","t","e","d">>) THEN 1 ELSE 0
        h3 == IF Contains(t, <<"h","i","d","d","e","n">>) \/ Contains(t, <<"s","p","a","c","e">>) THEN 1 ELSE 0
        hits == h1 + h2 + h3
    IN <<Min(60, Sixtieths(hits, 3)),
         << <<"m","a","t","c","h","e","d"," ">> \o IntStr(hits) \o <<" ","r","e","a","s","o","n","s">> >> >>

\* check_pivot_steps without the cap at 1.0
check_pivot_steps_NoCap(ans) ==
    LET t == lower(OrEmpty(ans))
        words == {<<"p","i","v","o","t">>, <<"c","h","a","r","t">>, <<"r","o","w","s">>, <<"c","o","l","u","m","n","s">>,
                  <<"v","a","l","u","e","s">>, <<"m","o","n","t","h">>, <<"s","u","m">>, <<"l","i","n","e">>}
        hits == Cardinality({w \in words : Contains(t, w)})
    IN <<Sixtieths(hits, 4),
         << <<"m","a","t","c","h","e","d"," ">> \o IntStr(hits) \o <<" ","c","h","a","r","t","/","p","i","v","o","t"," ","k","e","y","w","o","r","d","s">> >> >>

\* check_pivot_steps that asks for five keywords instead of four
check_pivot_steps_FiveNeeded(ans) ==
    LET t == lower(OrEmpty(ans))
        words == {<<"p","i","v","o","t">>, <<"c","h","a","r","t">>, <<"r","o","w","s">>, <<"c","o","l","u","m","n","s">>,
                  <<"v","a","l","u","e","s">>, <<"m","o","n","t","h">>, <<"s","u","m">>, <<"l","i","n","e">>}
        hits == Cardinality({w \in words : Contains(t, w)})
    IN <<Min(60, Sixtieths(hits, 5)),
         << <<"m","a","t","c","h","e","d"," ">> \o IntStr(hits) \o <<" ","c","h","a","r","t","/","p","i","v","o","t"," ","k","e","y","w","o","r","d","s">> >> >>

check_pivot_steps(ans) ==
    LET t == lower(OrEmpty(ans))
        words == {<<"p","i","v","o","t">>, <<"c","h","a","r","t">>, <<"r","o","w","s">>, <<"c","o","l","u","m","n","s">>,
                  <<"v","a","l","u","e","s">>, <<"m","o","n","t","h">>, <<"s","u","m">>, <<"l","i","n","e">>}
        hits == Cardinality({w \in words : Contains(t, w)})
    IN <<Min(60, Sixtieths(hits, 4)),
         << <<"m","a","t","c","h","e","d"," ">> \o IntStr(hits) \o <<" ","c","h","a","r","t","/","p","i","v","o","t"," ","k","e","y","w","o","r","d","s">> >> >>

check_q8(answer) ==
    LET t == lower(OrEmpty(answer))
        ok == \E w \in {<<"a","b","s","o","l","u","t","e">>, <<"r","e","l","a","t","i","v","e">>, <<"$","a","$","1">>, <<"a","1">>} : Contains(t, w)
    IN IF ok THEN <<60, << <<"E","x","p","l","a","i","n","s"," ","a","b","s","o","l","u","t","e"," ","v","s"," ","r","e","l","a","t","i","v","e">> >> >>
       ELSE <<0, << <<"D","o","e","s"," ","n","o","t"," ","e","x","p","l","a","i","n"," ","a","b","s","o","l","u","t","e"," ","v","s"," ","r","e","l","a","t","i","v","e">> >> >>

check_q9(answer) ==
    LET t == lower(OrEmpty(answer))
        ok == \E w \in {<<"x","l","o","o","k","u","p">>, <<"v","l","o","o","k","u","p">>, <<"i","n","d","e","x">>, <<"m","a","t","c","h">>,
                        <<"b","o","t","h"," ","d","i","r","e","c","t","i","o","n","s">>} : Contains(t, w)
    IN IF ok THEN <<60, << <<"M","e","n","t","i","o","n","s"," ","k","e","y"," ","d","i","f","f","e","r","e","n","c","e","s">> >> >>
       ELSE <<0, << <<"D","o","e","s"," ","n","o","t"," ","m","e","n","t","i","o","n"," ","d","i","f","f","e","r","e","n","c","e","s">> >> >>

\* grade(q, answer); only q["id"] is read
grade(qid, answer) ==
    IF qid = <<"q","1">> THEN check_sumifs(answer)
    ELSE IF qid = <<"q","2">> THEN check_xlookup(answer)
    ELSE IF qid = <<"q","3">> THEN check_countif(answer)
    ELSE IF qid = <<"q","4">> THEN check_average(answer)
    ELSE IF qid = <<"q","5">> THEN check_year(answer)
    ELSE IF qid = <<"q","6">> THEN check_div0(answer)
    ELSE IF qid = <<"q","7">> THEN check_sum_zero(answer)
    ELSE IF qid = <<"q","8">> THEN check_q8(answer)
    ELSE IF qid = <<"q","9">> THEN check_q9(answer)
    ELSE IF qid = <<"q","1","0">> THEN check_pivot_steps(answer)
    ELSE <<0, << <<"n","o"," ","r","u","l","e">> >> >>

-----------------------------------------------------------------------------
(* Human readable feedback templates.  A tip is an atomic string; U+2014 in *)
(* the YEAR tip is written "--".                                            *)

\* the tips list built by the chain of if-statements, in order
feedback_tips(qid, notes) ==
    LET joined == lower(JoinSpace(notes))
        has(w) == Contains(joined, w)
        t1 == IF has(<<"s","u","m","i","f","s">>)
              THEN <<"Good: you used SUMIFS. Tip: consider using Table references for robustness.">>
              ELSE <<>>
        t2 == IF has(<<"s","u","m","i","f">>) /\ ~has(<<"s","u","m","i","f","s">>)
              THEN <<"Partial: SUMIF works for single conditions; SUMIFS handles multiple conditions.">>
              ELSE <<>>
        t3 == IF has(<<"x","l","o","o","k","u","p">>) \/ has(<<"i","n","d","e","x">>)
              THEN <<"Good: using XLOOKUP/INDEX+MATCH is robust to column re-ordering.">>
              ELSE <<>>
        t4 == IF has(<<"c","o","u","n","t","i","f">>) \/ has(<<"c","o","u","n","t","a">>)
              THEN <<"COUNTIF / COUNTA are good for counting text/non-empty cells.">>
              ELSE <<>>
        t5 == IF has(<<"a","v","e","r","a","g","e">>)
              THEN <<"AVERAGE ignores blanks; AVERAGEIF can help with conditions.">>
              ELSE <<>>
        t6 == IF has(<<"y","e","a","r">>)
              THEN <<"YEAR() extracts year from dates -- useful for grouping by year.">>
              ELSE <<>>
        t7 == IF has(<<"d","i","v","0">>) \/ has(<<"d","i","v","i","d","e">>)
              THEN <<"Check denominators and handle zero or blank cases (IFERROR or conditional checks).">>
              ELSE <<>>
        t8 == IF has(<<"p","i","v","o","t">>) \/ has(<<"c","h","a","r","t">>)
              THEN <<"Good: use PivotTables or Group by Month to summarize time-series data.">>
              ELSE <<>>
        tips == t1 \o t2 \o t3 \o t4 \o t5 \o t6 \o t7 \o t8
    IN IF tips # <<>> THEN tips
       ELSE IF \/ startswith(qid, <<"q","1">>) \/ startswith(qid, <<"q","2">>)
               \/ startswith(qid, <<"q","3">>) \/ startswith(qid, <<"q","4">>)
               \/ startswith(qid, <<"q","5">>)
            THEN <<"If unsure, include the exact formula syntax (e.g., =SUMIFS(...)).">>
            ELSE <<"Try to mention concrete functions or steps (keywords help the grader).">>

\* " ".join(tips[:2])
feedback_from_notes(qid, notes) ==
    LET tips == feedback_tips(qid, notes)
    IN IF Len(tips) = 1 THEN tips[1] ELSE tips[1] \o " " \o tips[2]

-----------------------------------------------------------------------------
(* Confidence calculation. *)

\* confidence_label with a strict comparison at 0.8
confidence_label_Strict(score) ==
    IF score > Sixtieths(8, 10) THEN "High"
    ELSE IF score >= Sixtieths(4, 10) THEN "Medium"
    ELSE "Low"

confidence_label(score) ==
    IF score >= Sixtieths(8, 10) THEN "High"
    ELSE IF score >= Sixtieths(4, 10) THEN "Medium"
    ELSE "Low"

-----------------------------------------------------------------------------
(* Hands-on pivot validation.                                               *)
(*                                                                          *)
(* A table (DataFrame) is [columns, rows]: the column labels, distinct, and *)
(* the rows as sequences of cells in column order.  A cell is a date text   *)
(* of a year and month (the day is dropped by the truncation to the month), *)
(* a non-negative whole number, or any other text.  A column label is a str *)
(* or NonStrLabel, a label that is not a str (for instance an int header).  *)

NonStrLabel == <<"<int>">>

DateCell(y, m) == [kind |-> "date", y |-> y, m |-> m, v |-> 0]

NumCell(v) == [kind |-> "num", y |-> 0, m |-> 0, v |-> v]

TextCell == [kind |-> "text", y |-> 0, m |-> 0, v |-> 0]

\* NaT: the missing month
NaT == <<0, 0>>

\* NaN: the missing number; a number v is <<v>>
NaN == <<>>

\* pd.to_datetime(cell, errors="coerce") followed by the truncation to the
\* month: a date text gives its month, a number is read as nanoseconds since
\* the epoch (January 1970), anything else is NaT
to_month(cell) ==
    IF cell.kind = "date" THEN <<cell.y, cell.m>>
    ELSE IF cell.kind = "num" THEN <<1970, 1>>
    ELSE NaT

\* pd.to_numeric(cell, errors="coerce")
to_numeric(cell) == IF cell.kind = "num" THEN <<cell.v>> ELSE NaN

\* MonthLess that compares the month number before the year
MonthLess_MonthFirst(a, b) == a[2] < b[2] \/ (a[2] = b[2] /\ a[1] < b[1])

MonthLess(a, b) == a[1] < b[1] \/ (a[1] = b[1] /\ a[2] < b[2])

\* sort_values("month") of a set of distinct months
RECURSIVE SortMonths(_)
SortMonths(S) ==
    IF S = {} THEN <<>>
    ELSE LET lo == CHOOSE a \in S : \A b \in S \ {a} : MonthLess(a, b)
         IN <<lo>> \o SortMonths(S \ {lo})

RECURSIVE SumSeq(_)
SumSeq(s) == IF s = <<>> THEN 0 ELSE Head(s) + SumSeq(Tail(s))

\* s1 + s2 + ... of a list of lists
RECURSIVE Flatten(_)
Flatten(ss) == IF ss = <<>> THEN <<>> ELSE Head(ss) \o Flatten(Tail(ss))

IsDateLabel(lc) == Contains(lc, <<"d","a","t","e">>)

IsSalesLabel(lc) ==
    Contains(lc, <<"s","a","l","e","s">>) \/ Contains(lc, <<"a","m","o","u","n","t">>) \/ Contains(lc, <<"r","e","v","e","n","u","e">>)

\* the last index of a set of column indices, 0 when there is none: the
\* discovery loop assigns on every match and does not break
LastIndex(hits) ==
    IF hits = {} THEN 0 ELSE CHOOSE i \in hits : \A j \in hits : j <= i

\* date_col after the discovery loop, as a column index
date_col_of(columns) ==
    LastIndex({i \in 1..Len(columns) : IsDateLabel(lower(strip(columns[i])))})

\* sales_col after the discovery loop, as a column index
sales_col_of(columns) ==
    LastIndex({i \in 1..Len(columns) : IsSalesLabel(lower(strip(columns[i])))})

\* str(label) in the "Missing columns" note
LabelStr(columns, i) == IF i = 0 THEN <<"N","o","n","e">> ELSE columns[i]

\* groupby("month")[sales_col].sum().reset_index().sort_values("month")
monthly_of(rows, d, s) ==
    LET months == {to_month(rows[r][d]) : r \in 1..Len(rows)} \ {NaT}
        sorted == SortMonths(months)
        total(mo) ==
            SumSeq(Flatten([r \in 1..Len(rows) |->
                              IF to_month(rows[r][d]) = mo
                              THEN to_numeric(rows[r][s]) ELSE <<>>]))
    IN [i \in 1..Len(sorted) |-> [month |-> sorted[i], total |-> total(sorted[i])]]

\* how the first month's total prints: the summed column is a float column
\* as soon as one of its cells was coerced to NaN
TotalStr(rows, s, v) ==
    IF \E r \in 1..Len(rows) : to_numeric(rows[r][s]) = NaN
    THEN IntStr(v) \o <<".","0">>
    ELSE IntStr(v)

\* pivot_validate_dataframe without the test for a date column that is all NaT
pivot_validate_dataframe_NoNaTCheck(df) ==
    LET columns == df.columns
        rows == df.rows
        d == date_col_of(columns)
        s == sales_col_of(columns)
        monthly == monthly_of(rows, d, s)
    IN IF \E i \in 1..Len(columns) : columns[i] = NonStrLabel
       THEN <<FALSE,
              <<"P","i","v","o","t"," ","v","a","l","i","d","a","t","i","o","n"," ","e","r","r","o","r",":"," ","'","i","n","t","'"," ","o","b","j","e","c","t"," ","h","a","s"," ","n","o"," ","a","t","t","r","i","b","u","t","e"," ","'","s","t","r","i","p","'">>,
              <<>> >>
       ELSE IF d = 0 \/ s = 0
       THEN <<FALSE,
              <<"M","i","s","s","i","n","g"," ","c","o","l","u","m","n","s",":"," ","d","a","t","e","_","c","o","l","=">> \o LabelStr(columns, d)
                 \o <<","," ","s","a","l","e","s","_","c","o","l","=">> \o LabelStr(columns, s),
              <<>> >>
       ELSE IF FALSE
       THEN <<FALSE, <<"A","l","l"," ","d","a","t","e"," ","v","a","l","u","e","s"," ","c","o","u","l","d"," ","n","o","t"," ","b","e"," ","p","a","r","s","e","d",".">>, <<>> >>
       ELSE IF d = s
       THEN <<FALSE,
              <<"P","i","v","o","t"," ","v","a","l","i","d","a","t","i","o","n"," ","e","r","r","o","r",":"," ","C","a","n"," ","o","n","l","y"," ","u","s","e"," ",".","d","t"," ","a","c","c","e","s","s","o","r"," ","w","i","t","h"," ","d","a","t","e","t","i","m","e","l","i","k","e"," ","v","a","l","u","e","s">>,
              <<>> >>
       ELSE <<TRUE,
              <<"P","i","v","o","t"," ","O","K"," ","--"," ","f","o","u","n","d"," ">> \o IntStr(Len(monthly))
                 \o <<" ","m","o","n","t","h","s",";"," ","s","a","m","p","l","e"," ","t","o","t","a","l"," ","f","o","r"," ","f","i","r","s","t"," ","m","o","n","t","h",":"," ">>
                 \o (IF Len(monthly) > 0
                     THEN TotalStr(rows, s, monthly[1].total) ELSE <<"N","/","A">>),
              <<monthly>> >>

\* pivot_validate_dataframe(df) = <<ok, note, monthly>>; monthly is <<>>
\* when the function returns None for it and <<the aggregate>> otherwise
pivot_validate_dataframe(df) ==
    LET columns == df.columns
        rows == df.rows
        d == date_col_of(columns)
        s == sales_col_of(columns)
        monthly == monthly_of(rows, d, s)
    IN IF \E i \in 1..Len(columns) : columns[i] = NonStrLabel
       THEN <<FALSE,
              <<"P","i","v","o","t"," ","v","a","l","i","d","a","t","i","o","n"," ","e","r","r","o","r",":"," ","'","i","n","t","'"," ","o","b","j","e","c","t"," ","h","a","s"," ","n","o"," ","a","t","t","r","i","b","u","t","e"," ","'","s","t","r","i","p","'">>,
              <<>> >>
       ELSE IF d = 0 \/ s = 0
       THEN <<FALSE,
              <<"M","i","s","s","i","n","g"," ","c","o","l","u","m","n","s",":"," ","d","a","t","e","_","c","o","l","=">> \o LabelStr(columns, d)
                 \o <<","," ","s","a","l","e","s","_","c","o","l","=">> \o LabelStr(columns, s),
              <<>> >>
       ELSE IF \A r \in 1..Len(rows) : to_month(rows[r][d]) = NaT
       THEN <<FALSE, <<"A","l","l"," ","d","a","t","e"," ","v","a","l","u","e","s"," ","c","o","u","l","d"," ","n","o","t"," ","b","e"," ","p","a","r","s","e","d",".">>, <<>> >>
       ELSE IF d = s
       THEN <<FALSE,
              <<"P","i","v","o","t"," ","v","a","l","i","d","a","t","i","o","n"," ","e","r","r","o","r",":"," ","C","a","n"," ","o","n","l","y"," ","u","s","e"," ",".","d","t"," ","a","c","c","e","s","s","o","r"," ","w","i","t","h"," ","d","a","t","e","t","i","m","e","l","i","k","e"," ","v","a","l","u","e","s">>,
              <<>> >>
       ELSE <<TRUE,
              <<"P","i","v","o","t"," ","O","K"," ","--"," ","f","o","u","n","d"," ">> \o IntStr(Len(monthly))
                 \o <<" ","m","o","n","t","h","s",";"," ","s","a","m","p","l","e"," ","t","o","t","a","l"," ","f","o","r"," ","f","i","r","s","t"," ","m","o","n","t","h",":"," ">>
                 \o (IF Len(monthly) > 0
                     THEN TotalStr(rows, s, monthly[1].total) ELSE <<"N","/","A">>),
              <<monthly>> >>

-----------------------------------------------------------------------------
(* Inputs of the session: what the candidate may type and upload. *)

\* Typed answers per question, in question-bank order.
AnswerPool == <<
  << <<"="," ","S","u","m","I","f"," ","(","B",":","B">>, <<"=","S","U","M","I","F","S","(">>, <<" ","\t">> >>,
  << <<"i","n","d","e","x"," ","+"," ","M","a","t","c","h">> >>,
  << <<" "," ">> >>,
  << <<"=","A","v","e","r","a","g","e","(","E",":","E",")">> >>,
  << <<"y","e","a","r"," ","(","F","2",")">> >>,
  << <<"b","y"," ","Z","e","r","o">> >>,
  << <<"t","e","x","t">>, <<"T","e","x","t"," ","F","o","r","m","a","t">>, <<"h","i","d","d","e","n"," ","t","e","x","t"," ","f","o","r","m","a","t">> >>,
  << <<"A","1">> >>,
  << <<"n","e","w","e","r">> >>,
  << <<"p","i","v","o","t"," ","c","h","a","r","t">>, <<"l","i","n","e"," ","c","h","a","r","t",":"," ","s","u","m"," ","b","y"," ","m","o","n","t","h">>, <<"p","i","v","o","t">> >>
>>

\* what may be in the answer box of question i (1-based); nothing is
\* typed once the bank is exhausted
TypedAnswers(i) ==
    IF i \in 1..Len(AnswerPool)
    THEN {AnswerPool[i][k] : k \in 1..Min(NumTyped, Len(AnswerPool[i]))}
    ELSE {}

\* Answers of a well-prepared candidate, in question-bank order: the example
\* answers shown under the questions (the arrow of the last one written out)
\* and, for q1, q7 and q10, a weaker answer as well.
ExpertPool == <<
  << <<"=","S","U","M","I","F","S","(","B",":","B",","," ","A",":","A",","," ","\"","S","a","l","e","s","\"",")">>, <<"=","S","U","M","I","F","(","A",":","A",","," ","\"","S","a","l","e","s","\"",","," ","B",":","B",")">> >>,
  << <<"X","L","O","O","K","U","P","(","C","2",","," ","A",":","A",","," ","B",":","B",")">> >>,
  << <<"=","C","O","U","N","T","I","F","(","D","2",":","D","1","0","0",",","\"","*","\"",")">> >>,
  << <<"=","A","V","E","R","A","G","E","(","E",":","E",")">> >>,
  << <<"=","Y","E","A","R","(","F","2",")">> >>,
  << <<"D","i","v","i","d","i","n","g"," ","b","y"," ","z","e","r","o",";"," ","b","l","a","n","k"," ","d","e","n","o","m","i","n","a","t","o","r",".">> >>,
  << <<"C","e","l","l","s"," ","f","o","r","m","a","t","t","e","d"," ","a","s"," ","t","e","x","t",";"," ","h","i","d","d","e","n"," ","c","h","a","r","a","c","t","e","r","s","/","s","p","a","c","e","s",";"," ","n","o","t"," ","a","c","t","u","a","l","l","y"," ","n","u","m","e","r","i","c"," ","v","a","l","u","e","s",".">>, <<"C","e","l","l","s"," ","f","o","r","m","a","t","t","e","d"," ","a","s"," ","t","e","x","t">> >>,
  << <<"A","b","s","o","l","u","t","e"," ","s","t","a","y","s"," ","f","i","x","e","d"," ","w","h","e","n"," ","c","o","p","i","e","d",";"," ","R","e","l","a","t","i","v","e"," ","s","h","i","f","t","s"," ","w","i","t","h"," ","c","e","l","l"," ","p","o","s","i","t","i","o","n",".">> >>,
  << <<"X","L","O","O","K","U","P"," ","i","s"," ","m","o","r","e"," ","f","l","e","x","i","b","l","e",","," ","c","a","n"," ","s","e","a","r","c","h"," ","b","o","t","h"," ","d","i","r","e","c","t","i","o","n","s",","," ","n","o"," ","n","e","e","d"," ","f","o","r"," ","c","o","l","u","m","n"," ","i","n","d","e","x",","," ","h","a","n","d","l","e","s"," ","e","r","r","o","r","s",".">> >>,
  << <<"I","n","s","e","r","t"," ","a"," ","L","i","n","e"," ","c","h","a","r","t",","," ","s","e","t"," ","X","=","M","o","n","t","h","(","D","a","t","e",")",","," ","Y","=","S","u","m","(","S","a","l","e","s",")",".">>, <<"L","i","n","e"," ","c","h","a","r","t"," ","o","f"," ","S","u","m","(","S","a","l","e","s",")">> >>
>>

\* what the well-prepared candidate may have in the answer box of question i
ExpertAnswers(i) ==
    IF i \in 1..Len(ExpertPool)
    THEN {ExpertPool[i][k] : k \in 1..Len(ExpertPool[i])}
    ELSE {}

CandidateNames == {<<"C","a","n","d","i","d","a","t","e">>, <<"A","s","h","a">>}

EmptyTable == [columns |-> <<>>, rows |-> <<>>]

\* the uploader holds no file
NoFile == [present |-> FALSE, readable |-> FALSE, table |-> EmptyTable]

ReadableFile(t) == [present |-> TRUE, readable |-> TRUE, table |-> t]

\* a file that read_csv / read_excel cannot parse
UnreadableFile == [present |-> TRUE, readable |-> FALSE, table |-> EmptyTable]

SampleUploads == <<
  ReadableFile([columns |-> << <<"O","r","d","e","r","D","a","t","e">>, <<"R","e","g","i","o","n">>, <<"S","a","l","e","s","A","m","o","u","n","t">> >>,
                rows |-> << <<DateCell(2024, 2), TextCell, NumCell(70)>>,
                            <<DateCell(2024, 1), TextCell, NumCell(100)>>,
                            <<TextCell, TextCell, NumCell(10)>>,
                            <<DateCell(2024, 1), TextCell, NumCell(50)>> >>]),
  ReadableFile([columns |-> << <<"R","e","g","i","o","n">>, <<"S","a","l","e","s">> >>,
                rows |-> << <<TextCell, NumCell(5)>> >>]),
  UnreadableFile,
  ReadableFile([columns |-> << <<"D","a","t","e">>, <<"S","a","l","e","s">> >>,
                rows |-> << <<TextCell, NumCell(5)>>, <<TextCell, TextCell>> >>]),
  ReadableFile([columns |-> << <<"D","a","t","e">>, <<"S","h","i","p"," ","D","a","t","e">>, <<"S","a","l","e","s">>, <<"N","e","t"," ","R","e","v","e","n","u","e">> >>,
                rows |-> << <<DateCell(2024, 1), DateCell(2024, 3), NumCell(1), NumCell(2)>>,
                            <<DateCell(2024, 1), DateCell(2024, 2), TextCell, NumCell(4)>> >>]),
  ReadableFile([columns |-> << <<"D","a","t","e">>, NonStrLabel, <<"S","a","l","e","s">> >>,
                rows |-> << <<DateCell(2024, 1), TextCell, NumCell(1)>> >>]),
  ReadableFile([columns |-> << <<"D","a","t","e">>, <<"S","a","l","e","s">> >>, rows |-> <<>>]),
  ReadableFile([columns |-> << <<"R","e","g","i","o","n">>, <<"S","a","l","e","s"," ","D","a","t","e">> >>,
                rows |-> << <<TextCell, DateCell(2024, 1)>> >>])
>>

Files == {SampleUploads[k] : k \in 1..Min(NumFiles, Len(SampleUploads))}

-----------------------------------------------------------------------------
(* Session state (st.session_state) and the widgets that hold state.        *)
(* An attribute that is None or an object is <<>> for None and <<x>> for    *)
(* the object x.                                                            *)

VARIABLES
    started,          \* st.session_state.started
    current_q,        \* st.session_state.current_q
    responses,        \* st.session_state.responses: question id -> answer
    scores,           \* st.session_state.scores: question id -> score
    notes,            \* st.session_state.notes: question id -> list of notes
    started_at,       \* st.session_state.started_at
    upload_preview,   \* st.session_state.upload_preview
    pivot_monthly,    \* st.session_state.pivot_monthly
    show_intro,       \* st.session_state.show_intro
    candidate_name,   \* st.session_state.candidate_name (absent before Start)
    uploaded,         \* the file held by the file_uploader widget
    steps,            \* history: Submit/Skip passes since the last Start / Reset
    call,             \* pure-function harness: the call being made
    ret               \* pure-function harness: <<>> or <<returned value>>

svars == <<started, current_q, responses, scores, notes, started_at,
           upload_preview, pivot_monthly, show_intro, candidate_name,
           uploaded, steps>>

fvars == <<call, ret>>

vars == <<started, current_q, responses, scores, notes, started_at,
          upload_preview, pivot_monthly, show_intro, candidate_name,
          uploaded, steps, call, ret>>

\* the empty dict {}
EmptyDict == [k \in {} |-> <<>>]

\* d[k] = v
Put(d, k, v) == [x \in (DOMAIN d) \cup {k} |-> IF x = k THEN v ELSE d[x]]

\* d.get(k, default)
Get(d, k, default) == IF k \in DOMAIN d THEN d[k] ELSE default

\* datetime.utcnow().isoformat(); the clock itself is not modelled
Timestamp == <<"u","t","c","n","o","w">>

\* round(x, 1) of the fraction n/d, as a number of tenths
Round1(n, d) ==
    LET q == (10 * n) \div d
        r == (10 * n) % d
    IN IF 2 * r < d THEN q
       ELSE IF 2 * r > d THEN q + 1
       ELSE IF q % 2 = 0 THEN q ELSE q + 1

\* total_w as the number of questions, not the sum of their weights
total_w_CountsQuestions == NumQuestions

\* sum(q["weight"] for q in QUESTIONS)
total_w == SumSeq([i \in 1..NumQuestions |-> QUESTIONS[i].weight])

\* sum(scores.get(q["id"], 0.0) * q["weight"] for q in QUESTIONS), sixtieths
score_sum(sc) ==
    SumSeq([i \in 1..NumQuestions |->
              Get(sc, QUESTIONS[i].id, 0) * QUESTIONS[i].weight])

\* overall with the weights of the answered questions only as the divisor
overall_OverAnswered(sc) ==
    LET w == SumSeq([i \in 1..NumQuestions |->
                IF QUESTIONS[i].id \in DOMAIN sc THEN QUESTIONS[i].weight ELSE 0])
    IN IF w # 0 THEN Round1(100 * score_sum(sc), 60 * w) ELSE 0

\* round(100 * (total / total_w), 1) if total_w else 0.0, in tenths
overall(sc) ==
    IF total_w # 0 THEN Round1(100 * score_sum(sc), 60 * total_w) ELSE 0

\* the header badge of a pass, in tenths: the overall of the scores as they
\* are when the pass begins, before any button handler has run, and 0.0
\* while there is no response
HeaderOverall == IF DOMAIN responses # {} THEN overall(scores) ELSE 0

\* the question shown in this pass is the hands-on one
HandsOn(idx) == idx < NumQuestions /\ QUESTIONS[idx + 1].type = "hands_on"

\* df.head(50).to_dict(orient="records")
PreviewOf(t) ==
    [r \in 1..Min(50, Len(t.rows)) |->
        [i \in 1..Len(t.columns) |-> <<t.columns[i], t.rows[r][i]>>]]

\* What reading and validating each sample upload gives: the preview and
\* the result of pivot_validate_dataframe, computed once per file.
ReadResults ==
    [k \in 1..Len(SampleUploads) |->
        IF SampleUploads[k].readable
        THEN [preview |-> PreviewOf(SampleUploads[k].table),
              validation |-> pivot_validate_dataframe(SampleUploads[k].table)]
        ELSE [preview |-> <<>>, validation |-> <<FALSE, <<>>, <<>> >>]]

ReadResult(f) == ReadResults[CHOOSE k \in 1..Len(SampleUploads) : SampleUploads[k] = f]

\* the upload block when the validator's note is not kept for the handlers
UploadBlock_DropsNote(idx, f) ==
    IF HandsOn(idx) /\ f.present /\ f.readable
    THEN [preview |-> <<ReadResult(f).preview>>,
          monthly |-> ReadResult(f).validation[3],
          pivot_note |-> <<>>]
    ELSE [preview |-> upload_preview, monthly |-> pivot_monthly,
          pivot_note |-> <<>>]

\* The upload block of a pass that shows question idx: the values of
\* upload_preview, pivot_monthly and the local pivot_note after it.
UploadBlock(idx, f) ==
    IF HandsOn(idx) /\ f.present /\ f.readable
    THEN [preview |-> <<ReadResult(f).preview>>,
          monthly |-> ReadResult(f).validation[3],
          pivot_note |-> <<ReadResult(f).validation[2]>>]
    ELSE [preview |-> upload_preview, monthly |-> pivot_monthly,
          pivot_note |-> <<>>]

-----------------------------------------------------------------------------
(* Direct calls of the pure functions, made on a fresh process before any   *)
(* session starts: call is the function and its arguments, ret the result.  *)
(* A call of grade or confidence_label carries no table and a call of the   *)
(* validator only a table.                                                  *)

\* no pure-function call is being made
NoCall == [fn |-> "none", qid |-> <<>>, answer |-> <<>>, score |-> 0,
           df |-> EmptyTable]

\* question ids passed to grade: the bank's and two that are not in it
GradeIds == QIDS \cup {<<"q","1","1">>, <<>>}

\* answers passed to grade
GradeAnswers ==
    { NoneValue, <<>>, <<" ">>, <<" ","\t","\n"," ">>, <<"\n","\n">>,
      <<"=","S","U","M","I","F","S","(","B",":","B",","," ","A",":","A",","," ","\"","S","a","l","e","s","\"",")">>, <<"=","s"," ","u"," ","m"," ","i"," ","f","(","B",":","B",")">>,
      <<" ","I","n","d","e","x","("," ","M","a","t","c","h","("," ">>, <<"C","o","u","n","t","A">>, <<"=","a","v","e","r","a","g","e","i","f","(">>, <<"=","Y","e","a","r"," ","(","F","2",")">>,
      <<"D","i","v","i","d","e"," ","b","y"," ","Z","E","R","O"," ","o","r"," ","a","n"," ","E","m","p","t","y"," ","c","e","l","l">>, <<"b","l","a","n","k">>,
      <<"T","e","x","t"," ","f","o","r","m","a","t","t","e","d"," ","w","i","t","h"," ","h","i","d","d","e","n"," ","s","p","a","c","e","s">>, <<"t","e","x","t">>,
      <<"A","b","s","o","l","u","t","e">>, <<"X","L","o","o","k","u","p"," ","s","e","a","r","c","h","e","s"," ","b","o","t","h"," ","d","i","r","e","c","t","i","o","n","s">>,
      <<"P","i","v","o","t"," ","c","h","a","r","t",":"," ","r","o","w","s",","," ","c","o","l","u","m","n","s",","," ","v","a","l","u","e","s",","," ","m","o","n","t","h",","," ","s","u","m",","," ","l","i","n","e">>,
      <<"l","i","n","e"," ","c","h","a","r","t">>, <<"p","i","v","o","t"," ","s","u","m"," ","b","y"," ","m","o","n","t","h">>,
      <<"=","X","L","O","O",KelvinSign,"U","P","(","C","2",","," ","A",":","A",","," ","B",":","B",")">>,
      <<"C","e","l","l","s"," ","s","t","o","r","e","d"," ","i","n"," ","T","e","x","t"," ","f","o","r","m","a","t">> }

\* scores passed to confidence_label, in sixtieths: the whole range [0, 1]
\* and a margin on both sides
ConfScores == (0 - 6)..66

\* a table of a date-like and a sales-like column: what a cell of each
\* column may hold
GenDateCells == {DateCell(2024, 1), DateCell(2024, 2), DateCell(2023, 12), TextCell}

GenSalesCells == {NumCell(1), NumCell(2), TextCell}

GenRows == {<<d, s>> : d \in GenDateCells, s \in GenSalesCells}

\* the sequences of at most n rows
RECURSIVE RowSeqs(_)
RowSeqs(n) ==
    IF n = 0 THEN {<<>>}
    ELSE LET shorter == RowSeqs(n - 1)
         IN shorter \cup {Append(rs, r) : rs \in shorter, r \in GenRows}

\* tables passed to pivot_validate_dataframe: those of the sample uploads
\* and every table of at most MaxRows rows under two fixed column labels
ValidateTables ==
    {SampleUploads[k].table : k \in {j \in 1..Len(SampleUploads) : SampleUploads[j].readable}}
    \cup
    {[columns |-> << <<" ","O","r","d","e","r"," ","D","a","t","e"," ">>, <<"R","E","V","E","N","U","E">> >>, rows |-> rs] : rs \in RowSeqs(MaxRows)}

Calls ==
    {[fn |-> "grade", qid |-> q, answer |-> a, score |-> 0, df |-> EmptyTable] :
        q \in GradeIds, a \in GradeAnswers}
    \cup
    {[fn |-> "confidence_label", qid |-> <<>>, answer |-> <<>>, score |-> s,
      df |-> EmptyTable] : s \in ConfScores}
    \cup
    {[fn |-> "pivot_validate_dataframe", qid |-> <<>>, answer |-> <<>>,
      score |-> 0, df |-> t] : t \in ValidateTables}

CallGrade ==
    /\ call.fn = "grade"
    /\ ret = <<>>
    /\ ret' = <<grade(call.qid, call.answer)>>
    /\ UNCHANGED call
    /\ UNCHANGED svars

CallConfidence ==
    /\ call.fn = "confidence_label"
    /\ ret = <<>>
    /\ ret' = <<confidence_label(call.score)>>
    /\ UNCHANGED call
    /\ UNCHANGED svars

CallValidate ==
    /\ call.fn = "pivot_validate_dataframe"
    /\ ret = <<>>
    /\ ret' = <<pivot_validate_dataframe(call.df)>>
    /\ UNCHANGED call
    /\ UNCHANGED svars

-----------------------------------------------------------------------------
(* One action per render pass, named after the interaction that causes it. *)
(* A pass without a button handler and without a new file (typing in a box, *)
(* a download) leaves the session as it is and is a stuttering step.        *)

SInit ==
    /\ started = FALSE
    /\ current_q = 0
    /\ responses = EmptyDict
    /\ scores = EmptyDict
    /\ notes = EmptyDict
    /\ started_at = <<>>
    /\ upload_preview = <<>>
    /\ pivot_monthly = <<>>
    /\ show_intro = FALSE
    /\ candidate_name = <<>>
    /\ uploaded = NoFile
    /\ steps = 0

Init ==
    /\ SInit
    /\ call \in Calls \cup {NoCall}
    /\ ret = <<>>

\* Start / Reset that forgets to clear the monthly aggregate
StartReset_KeepsAggregate(candidate) ==
    /\ call = NoCall
    /\ started' = TRUE
    /\ started_at' = <<Timestamp>>
    /\ current_q' = 0
    /\ responses' = EmptyDict
    /\ scores' = EmptyDict
    /\ notes' = EmptyDict
    /\ upload_preview' = <<>>
    /\ pivot_monthly' = pivot_monthly
    /\ show_intro' = FALSE
    /\ candidate_name' = <<candidate>>
    /\ uploaded' = NoFile
    /\ steps' = 0
    /\ UNCHANGED fvars

\* "Start / Reset" clicked with the name in the sidebar text input.  The
\* intro card is shown in the same pass, which clears show_intro again; the
\* pass shows question 1, so the uploader is not rendered and loses its file.
StartReset(candidate) ==
    /\ call = NoCall
    /\ started' = TRUE
    /\ started_at' = <<Timestamp>>
    /\ current_q' = 0
    /\ responses' = EmptyDict
    /\ scores' = EmptyDict
    /\ notes' = EmptyDict
    /\ upload_preview' = <<>>
    /\ pivot_monthly' = <<>>
    /\ show_intro' = FALSE
    /\ candidate_name' = <<candidate>>
    /\ uploaded' = NoFile
    /\ steps' = 0
    /\ UNCHANGED fvars

\* grade(q, answer) for each question of the bank and each answer that may
\* be typed for it, computed once
GradeTable ==
    [i \in 1..NumQuestions |->
        [a \in TypedAnswers(i) \cup ExpertAnswers(i) |-> grade(QUESTIONS[i].id, a)]]

\* score, notes = grade(q, answer) for the question at 1-based position i
Graded(i, answer) ==
    IF answer \in DOMAIN GradeTable[i] THEN GradeTable[i][answer]
    ELSE grade(QUESTIONS[i].id, answer)

\* Submit that does not advance the index
Submit_NoAdvance(answer) ==
    /\ call = NoCall
    /\ started
    /\ current_q < NumQuestions
    /\ LET q == QUESTIONS[current_q + 1]
           u == UploadBlock(current_q, uploaded)
           g == Graded(current_q + 1, answer)
           n == IF q.type = "hands_on" /\ u.pivot_note # <<>> /\ u.pivot_note[1] # <<>>
                THEN g[2] \o u.pivot_note
                ELSE g[2]
       IN /\ responses' = Put(responses, q.id, answer)
          /\ scores' = Put(scores, q.id, g[1])
          /\ notes' = Put(notes, q.id, n)
          /\ upload_preview' = u.preview
          /\ pivot_monthly' = u.monthly
    /\ current_q' = current_q
    /\ steps' = steps + 1
    /\ uploaded' = NoFile
    /\ UNCHANGED <<started, started_at, show_intro, candidate_name>>
    /\ UNCHANGED fvars

\* "Submit" clicked with the text of the answer box.  The upload block runs
\* first in the same pass when the uploader holds a file.  Once the index
\* has moved on the uploader is not rendered before the next reset, so its
\* file is never read again and is forgotten at once.
Submit(answer) ==
    /\ call = NoCall
    /\ started
    /\ current_q < NumQuestions
    /\ LET q == QUESTIONS[current_q + 1]
           u == UploadBlock(current_q, uploaded)
           g == Graded(current_q + 1, answer)
           n == IF q.type = "hands_on" /\ u.pivot_note # <<>> /\ u.pivot_note[1] # <<>>
                THEN g[2] \o u.pivot_note
                ELSE g[2]
       IN /\ responses' = Put(responses, q.id, answer)
          /\ scores' = Put(scores, q.id, g[1])
          /\ notes' = Put(notes, q.id, n)
          /\ upload_preview' = u.preview
          /\ pivot_monthly' = u.monthly
    /\ current_q' = current_q + 1
    /\ steps' = steps + 1
    /\ uploaded' = NoFile
    /\ UNCHANGED <<started, started_at, show_intro, candidate_name>>
    /\ UNCHANGED fvars

\* Skip that records what is in the answer box
Skip_KeepsTyped(typed) ==
    /\ call = NoCall
    /\ started
    /\ current_q < NumQuestions
    /\ LET q == QUESTIONS[current_q + 1]
           u == UploadBlock(current_q, uploaded)
       IN /\ responses' = Put(responses, q.id, typed)
          /\ scores' = Put(scores, q.id, 0)
          /\ notes' = Put(notes, q.id, << <<"s","k","i","p","p","e","d">> >>)
          /\ upload_preview' = u.preview
          /\ pivot_monthly' = u.monthly
    /\ current_q' = current_q + 1
    /\ steps' = steps + 1
    /\ uploaded' = NoFile
    /\ UNCHANGED <<started, started_at, show_intro, candidate_name>>
    /\ UNCHANGED fvars

\* Skip that is not held back before the interview has started
Skip_BeforeStart(typed) ==
    /\ call = NoCall
    /\ current_q < NumQuestions
    /\ LET q == QUESTIONS[current_q + 1]
           u == UploadBlock(current_q, uploaded)
       IN /\ responses' = Put(responses, q.id, <<>>)
          /\ scores' = Put(scores, q.id, 0)
          /\ notes' = Put(notes, q.id, << <<"s","k","i","p","p","e","d">> >>)
          /\ upload_preview' = u.preview
          /\ pivot_monthly' = u.monthly
    /\ current_q' = current_q + 1
    /\ steps' = steps + 1
    /\ uploaded' = NoFile
    /\ UNCHANGED <<started, started_at, show_intro, candidate_name>>
    /\ UNCHANGED fvars

\* Skip that advances the index twice
Skip_DoubleAdvance(typed) ==
    /\ call = NoCall
    /\ started
    /\ current_q < NumQuestions
    /\ LET q == QUESTIONS[current_q + 1]
           u == UploadBlock(current_q, uploaded)
       IN /\ responses' = Put(responses, q.id, <<>>)
          /\ scores' = Put(scores, q.id, 0)
          /\ notes' = Put(notes, q.id, << <<"s","k","i","p","p","e","d">> >>)
          /\ upload_preview' = u.preview
          /\ pivot_monthly' = u.monthly
    /\ current_q' = current_q + 2
    /\ steps' = steps + 1
    /\ uploaded' = NoFile
    /\ UNCHANGED <<started, started_at, show_intro, candidate_name>>
    /\ UNCHANGED fvars

\* Skip that records no score
Skip_NoScore(typed) ==
    /\ call = NoCall
    /\ started
    /\ current_q < NumQuestions
    /\ LET q == QUESTIONS[current_q + 1]
           u == UploadBlock(current_q, uploaded)
       IN /\ responses' = Put(responses, q.id, <<>>)
          /\ scores' = scores
          /\ notes' = Put(notes, q.id, << <<"s","k","i","p","p","e","d">> >>)
          /\ upload_preview' = u.preview
          /\ pivot_monthly' = u.monthly
    /\ current_q' = current_q + 1
    /\ steps' = steps + 1
    /\ uploaded' = NoFile
    /\ UNCHANGED <<started, started_at, show_intro, candidate_name>>
    /\ UNCHANGED fvars

\* "Skip" clicked; typed is the text of the answer box at that moment.
Skip(typed) ==
    /\ call = NoCall
    /\ started
    /\ current_q < NumQuestions
    /\ LET q == QUESTIONS[current_q + 1]
           u == UploadBlock(current_q, uploaded)
       IN /\ responses' = Put(responses, q.id, <<>>)
          /\ scores' = Put(scores, q.id, 0)
          /\ notes' = Put(notes, q.id, << <<"s","k","i","p","p","e","d">> >>)
          /\ upload_preview' = u.preview
          /\ pivot_monthly' = u.monthly
    /\ current_q' = current_q + 1
    /\ steps' = steps + 1
    /\ uploaded' = NoFile
    /\ UNCHANGED <<started, started_at, show_intro, candidate_name>>
    /\ UNCHANGED fvars

\* Upload where a file that cannot be read moves the interview on
Upload_ReadErrorSkips(f) ==
    /\ call = NoCall
    /\ started
    /\ HandsOn(current_q)
    /\ f.present
    /\ uploaded' = f
    /\ LET u == UploadBlock(current_q, f)
       IN /\ upload_preview' = u.preview
          /\ pivot_monthly' = u.monthly
    /\ current_q' = IF f.readable THEN current_q ELSE current_q + 1
    /\ UNCHANGED <<started, responses, scores, notes, started_at,
                   show_intro, candidate_name, steps>>
    /\ UNCHANGED fvars

\* A file is put in the uploader of the hands-on question.
Upload(f) ==
    /\ call = NoCall
    /\ started
    /\ HandsOn(current_q)
    /\ f.present
    /\ uploaded' = f
    /\ LET u == UploadBlock(current_q, f)
       IN /\ upload_preview' = u.preview
          /\ pivot_monthly' = u.monthly
    /\ UNCHANGED <<started, current_q, responses, scores, notes, started_at,
                   show_intro, candidate_name, steps>>
    /\ UNCHANGED fvars

\* The file is removed from the uploader.
RemoveUpload ==
    /\ call = NoCall
    /\ started
    /\ HandsOn(current_q)
    /\ uploaded.present
    /\ uploaded' = NoFile
    /\ UNCHANGED <<started, current_q, responses, scores, notes, started_at,
                   upload_preview, pivot_monthly, show_intro, candidate_name,
                   steps>>
    /\ UNCHANGED fvars

Next ==
    \/ \E c \in CandidateNames : StartReset(c)
    \/ \E a \in TypedAnswers(current_q + 1) : Submit(a)
    \/ \E a \in TypedAnswers(current_q + 1) : Skip(a)
    \/ \E f \in Files : Upload(f)
    \/ RemoveUpload
    \/ CallGrade
    \/ CallConfidence
    \/ CallValidate

Spec == Init /\ [][Next]_vars

-----------------------------------------------------------------------------
(* The report of a pass, built from the session state at the end of it. *)

\* if st.session_state.responses: the review panel and the report are shown
ReportShown == DOMAIN responses # {}

\* the report loop without its test for a recorded response
Recorded_All == QUESTIONS

\* the questions the report loop does not pass over
Recorded == SelectSeq(QUESTIONS, LAMBDA q : q.id \in DOMAIN responses)

row_ans(q) == Get(responses, q.id, <<>>)

row_score(q) == Get(scores, q.id, 0)

row_notes(q) == Get(notes, q.id, <<>>)

\* conf = confidence_label(score)
row_conf(q) == confidence_label(row_score(q))

\* friendly = feedback_from_notes(qid, notes)
row_friendly(q) == feedback_from_notes(q.id, row_notes(q))

strengths ==
    LET sel == SelectSeq(Recorded, LAMBDA q : row_score(q) >= Sixtieths(8, 10))
    IN [i \in 1..Len(sel) |-> sel[i].prompt]

weaknesses ==
    LET sel == SelectSeq(Recorded, LAMBDA q : row_score(q) <= Sixtieths(4, 10))
    IN [i \in 1..Len(sel) |-> <<sel[i].prompt, row_friendly(sel[i])>>]

review_queue ==
    LET sel == SelectSeq(Recorded, LAMBDA q : row_score(q) < Sixtieths(4, 10))
    IN [i \in 1..Len(sel) |->
          [question |-> sel[i].prompt, answer |-> row_ans(sel[i]),
           notes |-> row_notes(sel[i])]]

\* the overall of the report, in tenths
report_overall == overall(scores)

-----------------------------------------------------------------------------
(* The interview without a second Start / Reset, with a candidate who keeps *)
(* answering: the specification of the termination claim.                   *)

\* the states of the interview
NotStarted == ~started

InProgress == started /\ current_q < NumQuestions

Complete == started /\ current_q >= NumQuestions

\* the first click on "Start / Reset"
FirstStart(candidate) == ~started /\ StartReset(candidate)

\* the candidate answers the question shown
Answer ==
    \E a \in TypedAnswers(current_q + 1) : Submit(a) \/ Skip(a)

NextLive ==
    \/ \E c \in CandidateNames : FirstStart(c)
    \/ \E a \in TypedAnswers(current_q + 1) : Submit(a)
    \/ \E a \in TypedAnswers(current_q + 1) : Skip(a)
    \/ \E f \in Files : Upload(f)
    \/ RemoveUpload

InitLive == SInit /\ call = NoCall /\ ret = <<>>

SpecLive == InitLive /\ [][NextLive]_vars /\ WF_vars(Answer)

-----------------------------------------------------------------------------
(* The interview of the well-prepared candidate: the same handlers, with    *)
(* the answer box holding one of the candidate's answers.                   *)

NextExpert ==
    \/ \E c \in CandidateNames : StartReset(c)
    \/ \E a \in ExpertAnswers(current_q + 1) : Submit(a)
    \/ \E a \in ExpertAnswers(current_q + 1) : Skip(a)
    \/ \E f \in Files : Upload(f)
    \/ RemoveUpload

SpecExpert == InitLive /\ [][NextExpert]_vars

-----------------------------------------------------------------------------
(* Claims. *)

\* C1, as stated: whenever a response is recorded, the overall score is
\* 100 * sum(score * weight) / sum(weight) to one decimal, both sums taken
\* over the questions with a recorded grade only.
C1_OverallOverRecordedOnly ==
    ReportShown =>
        LET rec == {i \in 1..NumQuestions : QUESTIONS[i].id \in DOMAIN scores}
            num == SumSeq([i \in 1..NumQuestions |->
                     IF i \in rec THEN scores[QUESTIONS[i].id] * QUESTIONS[i].weight ELSE 0])
            den == SumSeq([i \in 1..NumQuestions |->
                     IF i \in rec THEN QUESTIONS[i].weight ELSE 0])
            diff == 6 * den * report_overall - 100 * num
        IN diff <= 3 * den /\ (0 - diff) <= 3 * den

\* C1, amended: whenever a response is recorded, every question with a
\* response has a score, and the overall score is 100 * sum(score * weight)
\* over the recorded questions, divided by the sum of the weights of all ten
\* questions, to one decimal.
C1_OverallOverAllWeights ==
    ReportShown =>
        /\ DOMAIN scores = DOMAIN responses
        /\ LET rec == {i \in 1..NumQuestions : QUESTIONS[i].id \in DOMAIN responses}
               num == SumSeq([i \in 1..NumQuestions |->
                        IF i \in rec THEN scores[QUESTIONS[i].id] * QUESTIONS[i].weight ELSE 0])
               den == SumSeq([i \in 1..NumQuestions |-> QUESTIONS[i].weight])
               diff == 6 * den * report_overall - 100 * num
           IN diff <= 3 * den /\ (0 - diff) <= 3 * den

\* a report with a positive overall while questions are still unanswered
C1_Witness ==
    ReportShown /\ current_q < NumQuestions /\ report_overall > 0

\* C2: a Submit of answer a at index i in 0..9 stores a unchanged as the
\* response of question i, stores the score and notes of grade for that
\* question and answer, with the validator's note appended exactly when the
\* question is the hands-on one and the uploader holds a file that was read
\* and validated in the pass, advances the index by one and leaves every
\* other response and grade as it was.
C2_SubmitRecordsGrade ==
    [][\A a \in TypedAnswers(current_q + 1) : Submit(a) =>
        LET q == QUESTIONS[current_q + 1]
            g == grade(q.id, a)
            validated == q.type = "hands_on" /\ uploaded.present /\ uploaded.readable
            others == (DOMAIN responses) \ {q.id}
        IN /\ current_q \in 0..(NumQuestions - 1)
           /\ DOMAIN responses' = (DOMAIN responses) \cup {q.id}
           /\ DOMAIN scores' = (DOMAIN scores) \cup {q.id}
           /\ DOMAIN notes' = (DOMAIN notes) \cup {q.id}
           /\ responses'[q.id] = a
           /\ scores'[q.id] = g[1]
           /\ notes'[q.id] =
                 IF validated
                 THEN g[2] \o <<pivot_validate_dataframe(uploaded.table)[2]>>
                 ELSE g[2]
           /\ current_q' = current_q + 1
           /\ \A k \in others :
                 /\ responses'[k] = responses[k]
                 /\ scores'[k] = scores[k]
                 /\ notes'[k] = notes[k]
    ]_vars

\* the hands-on answer was submitted in a pass that validated an upload:
\* its notes are the grading note followed by the validator's note
C2_Witness ==
    /\ current_q = NumQuestions
    /\ responses[<<"q","1","0">>] # <<>>
    /\ Len(notes[<<"q","1","0">>]) = 2
    /\ upload_preview # <<>>

\* C3: a Skip at index i in 0..9 records the empty response, score 0.0 and
\* notes ["skipped"] for question i and advances the index by one, whatever
\* is typed in the answer box and whatever the uploader holds.
C3_SkipRecordsSkipped ==
    [][\A t \in TypedAnswers(current_q + 1) : Skip(t) =>
        LET q == QUESTIONS[current_q + 1]
        IN /\ current_q \in 0..(NumQuestions - 1)
           /\ responses' = Put(responses, q.id, <<>>)
           /\ scores' = Put(scores, q.id, 0)
           /\ notes' = Put(notes, q.id, << <<"s","k","i","p","p","e","d">> >>)
           /\ current_q' = current_q + 1
    ]_vars

\* the hands-on question was skipped while a validated upload was in place
C3_Witness ==
    /\ current_q = NumQuestions
    /\ notes[<<"q","1","0">>] = << <<"s","k","i","p","p","e","d">> >>
    /\ responses[<<"q","1","0">>] = <<>>
    /\ scores[<<"q","1","0">>] = 0
    /\ pivot_monthly # <<>>

\* C4: Start / Reset from any state leaves no responses, scores or notes, no
\* upload preview and no monthly aggregate, index 0 and the interview in
\* progress; the session it leaves is a function of the candidate name.
C4_ResetClearsSession ==
    [][\A c \in CandidateNames : StartReset(c) =>
        /\ InProgress'
        /\ current_q' = 0
        /\ DOMAIN responses' = {} /\ DOMAIN scores' = {} /\ DOMAIN notes' = {}
        /\ upload_preview' = <<>>
        /\ pivot_monthly' = <<>>
        /\ <<started, current_q, responses, scores, notes, started_at,
             upload_preview, pivot_monthly, show_intro, candidate_name>>'
           = <<TRUE, 0, EmptyDict, EmptyDict, EmptyDict, <<Timestamp>>,
               <<>>, <<>>, FALSE, <<c>> >>
    ]_vars

\* the session a Start / Reset leaves, under the second candidate name
C4_Witness ==
    /\ started /\ current_q = 0 /\ steps = 0
    /\ DOMAIN responses = {} /\ DOMAIN scores = {} /\ DOMAIN notes = {}
    /\ upload_preview = <<>> /\ pivot_monthly = <<>> /\ ~uploaded.present
    /\ candidate_name = << <<"A","s","h","a">> >>

\* C5: the index stays within 0..10, so the session is in exactly one of
\* NotStarted, InProgress (index 0..9) and Complete (index 10); Submit and
\* Skip happen only while InProgress; the index moves only by one, from an
\* InProgress state, or back to 0; Complete is left only by Start / Reset;
\* and a started interview never becomes NotStarted again.
C5_StateMachine ==
    /\ [](/\ current_q \in 0..NumQuestions
          /\ (NotStarted \/ InProgress \/ Complete)
          /\ ~(InProgress /\ Complete) /\ ~(NotStarted /\ InProgress)
          /\ ~(NotStarted /\ Complete)
          /\ (Complete <=> (started /\ current_q = NumQuestions)))
    /\ [][/\ (\E a \in TypedAnswers(current_q + 1) : Submit(a) \/ Skip(a))
               => InProgress
          /\ (current_q' # current_q)
               => \/ (InProgress /\ current_q' = current_q + 1)
                  \/ (\E c \in CandidateNames : StartReset(c))
          /\ (Complete /\ ~Complete') => (\E c \in CandidateNames : StartReset(c))
          /\ started => started'
       ]_vars

\* the interview is complete
C5_Witness ==
    Complete /\ current_q = NumQuestions /\ DOMAIN responses = QIDS

\* C6: in a pass that is not a Start / Reset the index does not decrease,
\* every recorded response and grade stays exactly as it is, and a Submit or
\* Skip records a question that had no response yet.
C6_LinearProgress ==
    [][(~ \E c \in CandidateNames : StartReset(c)) =>
        /\ current_q' >= current_q
        /\ \A k \in DOMAIN responses :
             /\ k \in DOMAIN responses' /\ responses'[k] = responses[k]
             /\ k \in DOMAIN scores /\ k \in DOMAIN scores' /\ scores'[k] = scores[k]
             /\ k \in DOMAIN notes /\ k \in DOMAIN notes' /\ notes'[k] = notes[k]
        /\ (\E a \in TypedAnswers(current_q + 1) : Submit(a) \/ Skip(a))
             => QUESTIONS[current_q + 1].id \notin DOMAIN responses
    ]_vars

\* a complete interview in which the first question was answered and a later
\* one skipped
C6_Witness ==
    /\ current_q = NumQuestions
    /\ responses[<<"q","1">>] # <<>>
    /\ \E k \in QIDS : notes[k] = << <<"s","k","i","p","p","e","d">> >>
    /\ pivot_monthly # <<>>

\* C7: once started, with no further Start / Reset and a candidate who keeps
\* answering, the interview becomes Complete; it is Complete exactly when 10
\* Submit / Skip passes have been made since the start, whatever was
\* uploaded.
C7_CompletesAfterTen ==
    /\ started ~> Complete
    /\ [](Complete <=> (started /\ steps = NumQuestions))
    /\ [](steps <= NumQuestions)

\* complete after ten passes, with an upload that failed validation
C7_Witness ==
    /\ Complete /\ steps = NumQuestions
    /\ upload_preview # <<>> /\ pivot_monthly = <<>>

\* C8: in the report, a question with a response is in strengths iff its
\* score >= 0.8, in weaknesses, paired with its feedback, iff its score
\* <= 0.4, and in the review queue, with its answer and notes, iff its score
\* < 0.4; a question without a response is in none of the lists; and each
\* list is in question-bank order.
C8_ReportLists ==
    ReportShown =>
        LET S == strengths
            W == weaknesses
            R == review_queue
            pos(p) == CHOOSE i \in 1..NumQuestions : QUESTIONS[i].prompt = p
            rec(q) == q.id \in DOMAIN responses
            inS(q) == \E k \in 1..Len(S) : S[k] = q.prompt
            inW(q) == \E k \in 1..Len(W) : W[k][1] = q.prompt
            inR(q) == \E k \in 1..Len(R) : R[k].question = q.prompt
        IN /\ \A i \in 1..NumQuestions :
                LET q == QUESTIONS[i]
                IN /\ inS(q) <=> (rec(q) /\ scores[q.id] >= Sixtieths(8, 10))
                   /\ inW(q) <=> (rec(q) /\ scores[q.id] <= Sixtieths(4, 10))
                   /\ inR(q) <=> (rec(q) /\ scores[q.id] < Sixtieths(4, 10))
                   /\ inW(q) =>
                        \E k \in 1..Len(W) :
                           W[k] = <<q.prompt, feedback_from_notes(q.id, notes[q.id])>>
                   /\ inR(q) =>
                        \E k \in 1..Len(R) :
                           R[k] = [question |-> q.prompt, answer |-> responses[q.id],
                                   notes |-> notes[q.id]]
           /\ \A k \in 1..(Len(S) - 1) : pos(S[k]) < pos(S[k + 1])
           /\ \A k \in 1..(Len(W) - 1) : pos(W[k][1]) < pos(W[k + 1][1])
           /\ \A k \in 1..(Len(R) - 1) : pos(R[k].question) < pos(R[k + 1].question)

\* a report with a strength, two weaknesses, a medium answer that is in no
\* list and unanswered questions
C8_Witness ==
    /\ ReportShown /\ current_q < NumQuestions
    /\ Len(strengths) >= 1 /\ Len(weaknesses) >= 2 /\ Len(review_queue) >= 2
    /\ \E k \in DOMAIN scores :
          scores[k] > Sixtieths(4, 10) /\ scores[k] < Sixtieths(8, 10)

\* C9: confidence_label returns High iff score >= 0.8, Medium iff
\* 0.4 <= score < 0.8 and Low iff score < 0.4, for every score, and the
\* confidence of a question in the report is that classification of its
\* recorded score.
C9_Confidence ==
    LET label(s) == IF s >= Sixtieths(8, 10) THEN "High"
                    ELSE IF s >= Sixtieths(4, 10) THEN "Medium" ELSE "Low"
    IN /\ (call.fn = "confidence_label" /\ ret # <<>>) =>
             /\ ret[1] \in {"High", "Medium", "Low"}
             /\ (ret[1] = "High") <=> (call.score >= Sixtieths(8, 10))
             /\ (ret[1] = "Medium") <=>
                   (call.score >= Sixtieths(4, 10) /\ call.score < Sixtieths(8, 10))
             /\ (ret[1] = "Low") <=> (call.score < Sixtieths(4, 10))
       /\ \A i \in 1..NumQuestions :
             QUESTIONS[i].id \in DOMAIN responses =>
                row_conf(QUESTIONS[i]) = label(scores[QUESTIONS[i].id])

\* the classifier was called with exactly 0.8 and returned High
C9_Witness ==
    /\ call.fn = "confidence_label" /\ call.score = Sixtieths(8, 10)
    /\ ret = <<"High">>

\* C10: for each of the ten questions, grading an answer that is None, empty
\* or made of whitespace only gives score 0.0.
C10_BlankScoresZero ==
    (/\ call.fn = "grade" /\ ret # <<>>
     /\ call.qid \in QIDS
     /\ \/ call.answer = NoneValue
        \/ \A i \in 1..Len(call.answer) : call.answer[i] \in {" ", "\t", "\n"})
    => ret[1][1] = 0

\* the hands-on question graded a whitespace-only answer
C10_Witness ==
    /\ call.fn = "grade" /\ call.qid = <<"q","1","0">>
    /\ call.answer = <<" ","\t","\n"," ">>
    /\ ret # <<>> /\ ret[1][1] = 0

\* C11: grade, called with any question id (of the bank or not) and any
\* answer, returns a score within [0, 1] and a non-empty list of notes, each
\* note a non-empty text; and every grade a Submit or a Skip has recorded in
\* the session has a score within [0, 1] and at least one note.
C11_GradeTotalAndBounded ==
    /\ (call.fn = "grade" /\ ret # <<>>) =>
          /\ ret[1][1] \in 0..Sixtieths(1, 1)
          /\ Len(ret[1][2]) >= 1
          /\ \A k \in 1..Len(ret[1][2]) : Len(ret[1][2][k]) >= 1
    /\ \A q \in DOMAIN responses :
          /\ q \in DOMAIN scores /\ q \in DOMAIN notes
          /\ scores[q] \in 0..Sixtieths(1, 1)
          /\ Len(notes[q]) >= 1

\* grade was called with an id that is not in the bank and returned 0.0
\* with the note "no rule"
C11_Witness ==
    /\ call.fn = "grade" /\ call.qid = <<"q","1","1">>
    /\ call.answer = <<"P","i","v","o","t"," ","c","h","a","r","t",":"," ","r","o","w","s",","," ","c","o","l","u","m","n","s",","," ","v","a","l","u","e","s",","," ","m","o","n","t","h",","," ","s","u","m",","," ","l","i","n","e">>
    /\ ret = << <<0, << <<"n","o"," ","r","u","l","e">> >> >> >>

\* C12: for q1 the score is 1.0 iff the normalized answer contains "SUMIFS",
\* 0.9 iff it contains "SUMIF" but not "SUMIFS", and 0.0 otherwise, and no
\* other score is possible; this holds of grade called directly and of the
\* score the session has recorded for the response to q1.
C12_SumifsScore ==
    LET rule(answer, score) ==
            LET a == normalize(answer)
                sumifs == Contains(a, <<"S","U","M","I","F","S">>)
                sumif == Contains(a, <<"S","U","M","I","F">>)
            IN /\ score \in {0, Sixtieths(9, 10), Sixtieths(1, 1)}
               /\ (score = Sixtieths(1, 1)) <=> sumifs
               /\ (score = Sixtieths(9, 10)) <=> (sumif /\ ~sumifs)
               /\ (score = 0) <=> ~(sumifs \/ (sumif /\ ~sumifs))
    IN /\ (call.fn = "grade" /\ ret # <<>> /\ call.qid = <<"q","1">>) =>
             rule(call.answer, ret[1][1])
       /\ <<"q","1">> \in DOMAIN responses =>
             rule(responses[<<"q","1">>], scores[<<"q","1">>])

\* grade was called for q1 with SUMIFS in mixed spacing and returned 1.0
C12_Witness ==
    /\ call.fn = "grade" /\ call.qid = <<"q","1">>
    /\ call.answer = <<"=","S","U","M","I","F","S","(","B",":","B",","," ","A",":","A",","," ","\"","S","a","l","e","s","\"",")">>
    /\ ret # <<>> /\ ret[1][1] = Sixtieths(1, 1)

\* C13, as stated: for each of q1..q5 the grade (score and notes) of an
\* answer stays the same when the letter case of any one character is
\* changed, when a whitespace character is inserted at any position (inside
\* a keyword too) and when any whitespace character is removed.
C13_CaseWhitespaceInsensitive ==
    (/\ call.fn = "grade" /\ ret # <<>>
     /\ call.qid \in {QUESTIONS[i].id : i \in 1..5}
     /\ call.answer # NoneValue)
    => LET a == call.answer
           swapcase(c) == IF UpperChar(c) # c THEN UpperChar(c) ELSE LowerChar(c)
           recased(i) == [a EXCEPT ![i] = swapcase(a[i])]
           inserted(i, w) == SubSeq(a, 1, i) \o <<w>> \o SubSeq(a, i + 1, Len(a))
           removed(i) == SubSeq(a, 1, i - 1) \o SubSeq(a, i + 1, Len(a))
       IN /\ \A i \in 1..Len(a) : grade(call.qid, recased(i)) = ret[1]
          /\ \A i \in 0..Len(a) : \A w \in {" ", "\t", "\n"} :
                grade(call.qid, inserted(i, w)) = ret[1]
          /\ \A i \in 1..Len(a) :
                IsSpace(a[i]) => grade(call.qid, removed(i)) = ret[1]

\* C14, as stated: when the validator succeeds on a table, the monthly
\* aggregate it returns is the one grouped by the first column (in column
\* order) whose lowercased name contains "date" and summed over the first
\* column whose lowercased name contains "sales", "amount" or "revenue".
C14_FirstMatchWins ==
    (/\ call.fn = "pivot_validate_dataframe" /\ ret # <<>>
     /\ ret[1][1] = TRUE)
    => LET columns == call.df.columns
           dates == {i \in 1..Len(columns) : IsDateLabel(lower(strip(columns[i])))}
           sales == {i \in 1..Len(columns) : IsSalesLabel(lower(strip(columns[i])))}
           first(hits) == CHOOSE i \in hits : \A j \in hits : i <= j
       IN /\ dates # {} /\ sales # {}
          /\ ret[1][3] = <<monthly_of(call.df.rows, first(dates), first(sales))>>

C16_FailuresAreValues ==
    (call.fn = "pivot_validate_dataframe" /\ ret # <<>>)
    => LET res == ret[1]
           columns == call.df.columns
           rows == call.df.rows
           failed == res[1] = FALSE /\ Len(res[2]) >= 1 /\ res[3] = <<>>
           nonstr == \E i \in 1..Len(columns) : columns[i] = NonStrLabel
           dates == {i \in 1..Len(columns) : IsDateLabel(lower(strip(columns[i])))}
           sales == {i \in 1..Len(columns) : IsSalesLabel(lower(strip(columns[i])))}
       IN /\ Len(res) = 3 /\ res[1] \in BOOLEAN
          /\ (res[1] = FALSE) => failed
          /\ (res[1] = TRUE) => (res[3] # <<>> /\ Len(res[2]) >= 1)
          /\ nonstr => failed
          /\ (dates = {} \/ sales = {}) => failed
          /\ (~nonstr /\ dates # {} /\ sales # {}
                /\ \A r \in 1..Len(rows) :
                      rows[r][date_col_of(columns)].kind = "text")
             => failed
          /\ (dates \cap sales # {} /\ date_col_of(columns) = sales_col_of(columns))
             => failed

\* the validator was called on a table with both columns and no rows and
\* returned the "All date values could not be parsed." failure
C16_Witness ==
    /\ call.fn = "pivot_validate_dataframe"
    /\ call.df = [columns |-> << <<"D","a","t","e">>, <<"S","a","l","e","s">> >>, rows |-> <<>>]
    /\ ret = << <<FALSE, <<"A","l","l"," ","d","a","t","e"," ","v","a","l","u","e","s"," ","c","o","u","l","d"," ","n","o","t"," ","b","e"," ","p","a","r","s","e","d",".">>, <<>> >> >>

\* C17: an upload on the hands-on question, whether the file cannot be read,
\* is read and fails validation, or validates, leaves the index and the
\* recorded responses, scores and notes as they are; while the uploader
\* holds a file, Submit and Skip are both enabled; and the score a Submit
\* records for the hands-on question is the score of grade for the typed
\* answer, whatever the uploader holds, and a Skip records 0.0.
C17_UploadNeverBlocks ==
    /\ [][\A f \in Files : Upload(f) =>
            /\ HandsOn(current_q)
            /\ UNCHANGED <<current_q, responses, scores, notes>>
            /\ InProgress /\ InProgress'
         ]_vars
    /\ [](uploaded.present =>
            /\ ENABLED (\E a \in TypedAnswers(current_q + 1) : Submit(a))
            /\ ENABLED (\E a \in TypedAnswers(current_q + 1) : Skip(a)))
    /\ [][\A a \in TypedAnswers(current_q + 1) :
            /\ (Submit(a) /\ HandsOn(current_q)) =>
                  scores'[QUESTIONS[current_q + 1].id]
                     = check_pivot_steps(a)[1]
            /\ (Skip(a) /\ HandsOn(current_q)) =>
                  scores'[QUESTIONS[current_q + 1].id] = 0
         ]_vars

\* the hands-on answer scored above 0 in an interview completed after an
\* upload that was read and failed validation
C17_Witness ==
    /\ Complete
    /\ scores[<<"q","1","0">>] > 0
    /\ upload_preview # <<>> /\ pivot_monthly = <<>>
    /\ Len(notes[<<"q","1","0">>]) = 2

\* C18, as stated: for a skipped question (notes = ["skipped"], in which no
\* known substring occurs) the feedback is the formula-question generic tip
\* iff the question is one of q1..q5 and the other generic tip for each of
\* q6..q10, and that feedback is what the weaknesses list of the report
\* pairs with the question.
C18_GenericTipByQuestion ==
    ReportShown =>
        \A i \in 1..NumQuestions :
            LET q == QUESTIONS[i]
                tip == IF i <= 5
                       THEN "If unsure, include the exact formula syntax (e.g., =SUMIFS(...))."
                       ELSE "Try to mention concrete functions or steps (keywords help the grader)."
            IN (q.id \in DOMAIN notes /\ notes[q.id] = << <<"s","k","i","p","p","e","d">> >>) =>
                  /\ feedback_from_notes(q.id, notes[q.id]) = tip
                  /\ \E k \in 1..Len(weaknesses) : weaknesses[k] = <<q.prompt, tip>>

\* C19: in every reachable state the responses, scores and notes mappings
\* have the same keys, and these are exactly the ids of the first current_q
\* questions of the bank: none at index 0 and before the start, all ten when
\* complete, and never the id of a question at or after the index.
C19_KeysAreAnsweredPrefix ==
    LET prefix == {QUESTIONS[i].id : i \in 1..current_q}
    IN /\ current_q \in 0..NumQuestions
       /\ DOMAIN responses = prefix
       /\ DOMAIN scores = prefix
       /\ DOMAIN notes = prefix
       /\ NotStarted => (current_q = 0 /\ DOMAIN responses = {})
       /\ Complete => DOMAIN responses = QIDS
       /\ \A i \in (current_q + 1)..NumQuestions :
             /\ QUESTIONS[i].id \notin DOMAIN responses
             /\ QUESTIONS[i].id \notin DOMAIN scores
             /\ QUESTIONS[i].id \notin DOMAIN notes

\* four questions in, the first one answered and the fourth skipped
C19_Witness ==
    /\ started /\ current_q = 4
    /\ DOMAIN scores = {<<"q","1">>, <<"q","2">>, <<"q","3">>, <<"q","4">>}
    /\ responses[<<"q","1">>] # <<>>
    /\ notes[<<"q","4">>] = << <<"s","k","i","p","p","e","d">> >>

\* C20: no score that grade returns for a question of the bank, and no score
\* recorded by Submit or Skip, is exactly 0.4; so in every report the
\* weaknesses list and the review queue hold the same questions, which are
\* exactly the recorded questions classified Low, and the strengths list
\* holds exactly the recorded questions classified High.
C20_NoScoreAtFourTenths ==
    /\ (call.fn = "grade" /\ ret # <<>> /\ call.qid \in QIDS) =>
          ret[1][1] # Sixtieths(4, 10)
    /\ \A k \in DOMAIN scores : scores[k] # Sixtieths(4, 10)
    /\ ReportShown =>
          LET S == strengths
              W == weaknesses
              R == review_queue
              labelled(l) ==
                  {QUESTIONS[i].prompt : i \in
                      {j \in 1..NumQuestions :
                          /\ QUESTIONS[j].id \in DOMAIN responses
                          /\ row_conf(QUESTIONS[j]) = l}}
          IN /\ {W[k][1] : k \in 1..Len(W)} = {R[k].question : k \in 1..Len(R)}
             /\ Len(W) = Len(R)
             /\ {R[k].question : k \in 1..Len(R)} = labelled("Low")
             /\ {S[k] : k \in 1..Len(S)} = labelled("High")

\* a complete report with High, Medium and Low questions
C20_Witness ==
    /\ Complete /\ ReportShown
    /\ Len(strengths) >= 1
    /\ Len(weaknesses) >= 1 /\ Len(weaknesses) = Len(review_queue)
    /\ \E i \in 1..NumQuestions : row_conf(QUESTIONS[i]) = "Medium"
    /\ scores[<<"q","1","0">>] = Sixtieths(2, 4)

\* C21: in a pass that is not a Start / Reset (a Submit, a Skip, an upload or
\* its removal) the overall score of the report does not decrease; it always
\* lies within 0..100; and it is 100 only when all ten questions have a
\* recorded score of 1.0.
C21_OverallMonotoneAndBounded ==
    /\ [][(~ \E c \in CandidateNames : StartReset(c)) =>
             overall(scores') >= overall(scores)]_vars
    /\ [](report_overall >= 0 /\ report_overall <= 1000)
    /\ []((report_overall = 1000) =>
             /\ DOMAIN scores = QIDS
             /\ \A k \in QIDS : scores[k] = Sixtieths(1, 1))

\* every question answered at 1.0 after an upload that validated: the
\* overall is 100.0
C21_Witness ==
    /\ Complete /\ report_overall = 1000
    /\ \A k \in QIDS : scores[k] = Sixtieths(1, 1)
    /\ pivot_monthly # <<>>

\* C22, as stated: in every pass that shows the report, the pass that
\* handles a Submit or a Skip included, the overall in the header badge
\* equals the overall in the report of that pass.  The header is rendered
\* from the session as it is when the pass begins, the report from the
\* session as the handler of the pass leaves it.
C22_HeaderMatchesReport ==
    [][ReportShown' => HeaderOverall = report_overall']_vars

====
